---- MODULE Spec2Model ----
(***************************************************************************)
(* Model of the ID-photo pipeline of muwahhad: the two transport front     *)
(* ends (app.py process_route, fastapi_app.py process_endpoint), the       *)
(* validate-then-fix driver (processing.py process_id_photo) and the       *)
(* geometric compositor (auto_fix_image, _auto_fix_without_face).          *)
(*                                                                         *)
(* Python floats are modelled as exact rationals <<n, d>> with d > 0 in    *)
(* lowest terms; int() is truncation toward zero and // is floor division. *)
(* A value also carries its Python type where the code mixes int and float *)
(* (offset_y after the head-room clamp).                                   *)
(***************************************************************************)
EXTENDS Integers, Sequences, FiniteSets, TLC

VARIABLES pc, app, filename, image, validation, fatal_issues, warnings,
          decision, composited, fix, files, inv, resp

vars == <<pc, app, filename, image, validation, fatal_issues, warnings,
          decision, composited, fix, files, inv, resp>>

(***************************************************************************)
(* Bounds of the model.                                                    *)
(***************************************************************************)
MaxDim == 3      \* image widths and heights 1..MaxDim (plus the scenarios)
RelDen == 4      \* face-box coordinates k/RelDen, k in 0..RelDen
MaxInv == 3      \* number of pipeline invocations explored
MaxIssues == 2   \* criteria of one report that are not "passed"

(***************************************************************************)
(* Exact rational arithmetic standing for Python float arithmetic.         *)
(***************************************************************************)
RECURSIVE GCD(_, _)
GCD(a, b) == IF b = 0 THEN a ELSE GCD(b, a % b)

Abs(n) == IF n < 0 THEN -n ELSE n

Norm(n, d) ==
    LET s == IF d < 0 THEN -1 ELSE 1
        g == GCD(Abs(n), Abs(d))
    IN  <<(s * n) \div g, (s * d) \div g>>

R(n) == <<n, 1>>
RAdd(p, q) == Norm(p[1] * q[2] + q[1] * p[2], p[2] * q[2])
RSub(p, q) == Norm(p[1] * q[2] - q[1] * p[2], p[2] * q[2])
RMul(p, q) == Norm(p[1] * q[1], p[2] * q[2])
RDiv(p, q) == Norm(p[1] * q[2], p[2] * q[1])
RLess(p, q) == p[1] * q[2] < q[1] * p[2]
RMin(p, q) == IF RLess(q, p) THEN q ELSE p

\* Python int(x): truncation toward zero
PyInt(p) == IF p[1] >= 0 THEN p[1] \div p[2] ELSE -((-p[1]) \div p[2])

\* Python round(x): nearest integer, ties to even
PyRound(p) ==
    LET f == p[1] \div p[2]
        r2 == 2 * (p[1] - f * p[2])
    IN  IF r2 < p[2] THEN f
        ELSE IF r2 > p[2] THEN f + 1
        ELSE IF f % 2 = 0 THEN f ELSE f + 1

(***************************************************************************)
(* processing.py: the compositor.                                          *)
(***************************************************************************)
TARGET_SIZE == <<480, 640>>
target_w == TARGET_SIZE[1]
target_h == TARGET_SIZE[2]
head_margin == 10
desired_bottom_margin == 8

NoFace == [none |-> TRUE]

\* results.detections is empty
NoDetection(img) == img.face = NoFace

\* values of a compositor result that an aborted run never computed
NoValue == <<0, 1>>

FixResult(branch, error, scale, nw, nh, ox, oy, oyfloat, oy0, fcx, fcy, fty) ==
    [branch |-> branch, error |-> error,
     saved |-> (error = "none"),
     size |-> IF error = "none" THEN TARGET_SIZE ELSE <<0, 0>>,
     scale |-> scale, new_w |-> nw, new_h |-> nh,
     offset_x |-> ox, offset_y |-> oy, offset_y_is_float |-> oyfloat,
     offset_y_initial |-> oy0,
     face_center_x_scaled |-> fcx, face_center_y_scaled |-> fcy,
     face_top_y_scaled |-> fty]

Aborted(branch, error) ==
    FixResult(branch, error, NoValue, 0, 0, 0, NoValue, FALSE, 0,
              NoValue, NoValue, NoValue)

\* Image.resize: Pillow refuses a target size with a zero side
ResizeFails(nw, nh) == nw < 1 \/ nh < 1

\* Image.paste: the box must hold Python ints
PasteFails(oyfloat) == oyfloat

\* Branch B, lines 175-178
fit_scale(subj_w, subj_h) ==
    RMin(RDiv(R(target_w), R(subj_w)), RDiv(R(target_h), R(subj_h)))

\* Branch B, lines 181-182
center_offset_mut(target, new) == target - new
center_offset(target, new) == (target - new) \div 2

auto_fix_without_face(img) ==
    LET subj_w == img.w
        subj_h == img.h
        scale == fit_scale(subj_w, subj_h)
        new_w == PyInt(RMul(R(subj_w), scale))
        new_h == PyInt(RMul(R(subj_h), scale))
        off_x == center_offset(target_w, new_w)
        off_y == center_offset(target_h, new_h)
    IN  IF ResizeFails(new_w, new_h) THEN Aborted("B", "ValueError")
        ELSE FixResult("B", "none", scale, new_w, new_h, off_x, R(off_y),
                       FALSE, off_y, NoValue, NoValue, NoValue)

\* Branch A, lines 203-206: the box in absolute pixels
face_fx(img) == RMul(img.face.xmin, R(img.w))
face_fy(img) == RMul(img.face.ymin, R(img.h))
face_fw(img) == RMul(img.face.width, R(img.w))
face_fh(img) == RMul(img.face.height, R(img.h))

\* lines 208-209
face_center_x(img) == RAdd(face_fx(img), RDiv(face_fw(img), R(2)))
face_center_y(img) == RAdd(face_fy(img), RDiv(face_fh(img), R(2)))

\* lines 218-219
desired_face_h_mut == RMul(R(target_w), <<1, 2>>)
desired_face_h == RMul(R(target_h), <<1, 2>>)
face_scale(img) == RDiv(desired_face_h, face_fh(img))

\* lines 221-222
new_subj_w(img) == PyInt(RMul(R(img.w), face_scale(img)))
new_subj_h(img) == PyInt(RMul(R(img.h), face_scale(img)))

\* lines 226-230
scale_x(img) == RDiv(R(new_subj_w(img)), R(img.w))
scale_y(img) == RDiv(R(new_subj_h(img)), R(img.h))
face_center_x_scaled(img) == RMul(face_center_x(img), scale_x(img))
face_center_y_scaled(img) == RMul(face_center_y(img), scale_y(img))
face_top_y_scaled(img) == RMul(face_fy(img), scale_y(img))

\* line 236
desired_face_center_y == RMul(R(target_h), <<52, 100>>)

\* lines 238-239
initial_offset_x_mut(img) ==
    LET ox == PyInt(RSub(RDiv(R(target_w), R(2)), face_center_x_scaled(img)))
    IN  IF ox < 0 THEN 0 ELSE ox
initial_offset_y_mut(img) ==
    PyRound(RSub(desired_face_center_y, face_center_y_scaled(img)))
initial_offset_x(img) ==
    PyInt(RSub(RDiv(R(target_w), R(2)), face_center_x_scaled(img)))
initial_offset_y(img) ==
    PyInt(RSub(desired_face_center_y, face_center_y_scaled(img)))

\* lines 242-245: the head-room clamp; yields <<offset_y, is_float>>
top_in_canvas(img, oy) ==
    RSub(RAdd(oy, face_top_y_scaled(img)), R(head_margin))
head_room_clamp_mut(img, oy) ==
    IF RLess(R(0), top_in_canvas(img, oy))
    THEN <<RSub(oy, top_in_canvas(img, oy)), TRUE>>
    ELSE <<oy, FALSE>>
head_room_clamp(img, oy) ==
    IF RLess(top_in_canvas(img, oy), R(0))
    THEN <<RSub(oy, top_in_canvas(img, oy)), TRUE>>
    ELSE <<oy, FALSE>>

\* lines 248-252: the bottom-margin tightening on <<offset_y, is_float>>
extra_space(img, oy) == RSub(R(target_h), RAdd(oy, R(new_subj_h(img))))
bottom_tighten_mut(img, oyf) ==
    <<RAdd(oyf[1], RSub(extra_space(img, oyf[1]),
                        R(desired_bottom_margin))), oyf[2]>>
bottom_tighten(img, oyf) ==
    IF RLess(R(desired_bottom_margin), extra_space(img, oyf[1]))
    THEN <<RAdd(oyf[1], RSub(extra_space(img, oyf[1]),
                             R(desired_bottom_margin))), oyf[2]>>
    ELSE oyf

auto_fix_image(img) ==
    IF NoDetection(img) THEN auto_fix_without_face(img)
    ELSE IF face_fh(img)[1] = 0 THEN Aborted("A", "ZeroDivisionError")
    ELSE IF ResizeFails(new_subj_w(img), new_subj_h(img))
         THEN Aborted("A", "ValueError")
    ELSE
      LET oy0 == initial_offset_y(img)
          oyf == bottom_tighten(img, head_room_clamp(img, R(oy0)))
      IN  FixResult("A",
                    IF PasteFails(oyf[2]) THEN "TypeError" ELSE "none",
                    face_scale(img), new_subj_w(img), new_subj_h(img),
                    initial_offset_x(img), oyf[1], oyf[2], oy0,
                    face_center_x_scaled(img), face_center_y_scaled(img),
                    face_top_y_scaled(img))

(***************************************************************************)
(* Inputs: images with the face the locator reports for them, validation   *)
(* reports, upload requests.                                               *)
(***************************************************************************)
Face(xmin, ymin, width, height) ==
    [xmin |-> xmin, ymin |-> ymin, width |-> width, height |-> height]

\* spec section 8: 480x640, face box (0.35, 0.10, 0.30, 0.20)
ScenarioImage ==
    [w |-> 480, h |-> 640,
     face |-> Face(<<7, 20>>, <<1, 10>>, <<3, 10>>, <<1, 5>>)]
\* spec section 8: no face located, subject 900x1200
FallbackImage == [w |-> 900, h |-> 1200, face |-> NoFace]
\* a detection whose box has no height
FlatFaceImage ==
    [w |-> 480, h |-> 640,
     face |-> Face(<<7, 20>>, <<1, 10>>, <<3, 10>>, <<0, 1>>)]
\* a face that fills the top half of the frame
TopFaceImage ==
    [w |-> 480, h |-> 640,
     face |-> Face(<<7, 20>>, <<0, 1>>, <<3, 10>>, <<1, 2>>)]

Rel == {Norm(k, RelDen) : k \in 0..RelDen}
Faces == {Face(x, y, fw, fh) : x \in Rel, y \in Rel, fw \in Rel, fh \in Rel}
Sizes ==
    ((1..MaxDim) \X (1..MaxDim)) \cup {<<480, 640>>, <<900, 1200>>, <<1, 700>>}
GridImages ==
    {[w |-> s[1], h |-> s[2], face |-> f] :
        s \in Sizes, f \in Faces \cup {NoFace}}
GeoImages ==
    GridImages \cup {ScenarioImage, FallbackImage, FlatFaceImage, TopFaceImage}
PipeImages == {ScenarioImage, FallbackImage, FlatFaceImage}

\* the validator's response format, processing.py lines 78-85
Criteria == {"faceDetected", "background", "lighting", "alignment",
             "accessories"}
KeyOrder == <<"faceDetected", "background", "lighting", "alignment",
              "accessories", "overallScore">>
Status == {"passed", "failed", "warning"}

Entry(s) == [status |-> s, message |-> "msg"]
Report(st) ==
    [k \in Criteria \cup {"overallScore"} |->
        IF k = "overallScore" THEN 80 ELSE Entry(st[k])]
Reports ==
    {Report(st) : st \in {t \in [Criteria -> Status] :
        Cardinality({k \in Criteria : t[k] # "passed"}) <= MaxIssues}}

\* validate_id_photo: a report, or ValueError on output that is not JSON
Raised == [raised |-> "ValueError"]
ValidatorOutcomes == Reports \cup {Raised}

\* upload file names as <<base, extension>>; <<"", "">> is the empty name
FileNames == {<<"a", ".jpg">>, <<"a", ".png">>, <<"", "">>}

Absent == [by |-> 0, size |-> <<0, 0>>]
OutputNames ==
    {<<"output_", b, e>> : b \in {"a", "uploaded_image"},
                           e \in {".jpg", ".png"}}

None == "None"
NoResponse == [status |-> 0]

(***************************************************************************)
(* Report interpretation in the two front ends and in process_id_photo.    *)
(***************************************************************************)
\* app.py line 46, fastapi_app.py line 155, processing.py line 264
process_route_fatal_keys_mut == {"faceDetected", "alignment"}
process_route_fatal_keys == {"faceDetected", "alignment", "accessories"}
process_endpoint_fatal_keys == {"faceDetected", "alignment", "accessories"}
process_id_photo_fatal_keys == {"faceDetected", "alignment", "accessories"}

Item(key, value) ==
    [key |-> key, status |-> value.status, message |-> value.message]

\* app.py lines 46-59: yields <<fatal_issues, warnings>>
RECURSIVE process_route_classify(_, _, _, _)
process_route_classify(v, i, fatal, warn) ==
    IF i > Len(KeyOrder) THEN <<fatal, warn>>
    ELSE LET key == KeyOrder[i] IN
         IF key = "overallScore"
         THEN process_route_classify(v, i + 1, fatal, warn)
         ELSE IF v[key].status = "failed" /\ key \in process_route_fatal_keys
         THEN process_route_classify(v, i + 1,
                                     Append(fatal, Item(key, v[key])), warn)
         ELSE IF v[key].status = "warning"
         THEN process_route_classify(v, i + 1, fatal,
                                     Append(warn, Item(key, v[key])))
         ELSE process_route_classify(v, i + 1, fatal, warn)

\* fastapi_app.py lines 155-169: yields <<fatal_issues, warnings>>
RECURSIVE process_endpoint_classify_mut(_, _, _, _)
process_endpoint_classify_mut(v, i, fatal, warn) ==
    IF i > Len(KeyOrder) THEN <<fatal, warn>>
    ELSE LET key == KeyOrder[i] IN
         IF key = "overallScore"
         THEN process_endpoint_classify_mut(v, i + 1, fatal, warn)
         ELSE IF v[key].status = "failed"
         THEN process_endpoint_classify_mut(v, i + 1,
                                            Append(fatal, Item(key, v[key])),
                                            warn)
         ELSE IF v[key].status = "warning"
         THEN process_endpoint_classify_mut(v, i + 1, fatal,
                                            Append(warn, Item(key, v[key])))
         ELSE process_endpoint_classify_mut(v, i + 1, fatal, warn)

RECURSIVE process_endpoint_classify(_, _, _, _)
process_endpoint_classify(v, i, fatal, warn) ==
    IF i > Len(KeyOrder) THEN <<fatal, warn>>
    ELSE LET key == KeyOrder[i] IN
         IF key = "overallScore"
         THEN process_endpoint_classify(v, i + 1, fatal, warn)
         ELSE IF v[key].status = "failed"
                 /\ key \in process_endpoint_fatal_keys
         THEN process_endpoint_classify(v, i + 1,
                                        Append(fatal, Item(key, v[key])), warn)
         ELSE IF v[key].status = "warning"
         THEN process_endpoint_classify(v, i + 1, fatal,
                                        Append(warn, Item(key, v[key])))
         ELSE process_endpoint_classify(v, i + 1, fatal, warn)

\* lines 61-62 of app.py, 171-172 of fastapi_app.py
decide(fatal) == IF Len(fatal) > 0 THEN "rejected" ELSE "processed"

\* processing.py lines 264-268
has_fatal(result) ==
    \E key \in process_id_photo_fatal_keys : result[key].status = "failed"

\* app.py lines 38-39
process_route_output_filename(fn) == <<"output_", fn[1], ".jpg">>

\* fastapi_app.py line 139 and prepare_output_filename
default_filename(fn) ==
    IF fn = <<"", "">> THEN <<"uploaded_image", ".jpg">> ELSE fn
prepare_output_filename(fn) ==
    <<"output_", fn[1], IF fn[2] = "" THEN ".jpg" ELSE fn[2]>>

output_path(a, fn) ==
    IF a = "flask" THEN process_route_output_filename(fn)
    ELSE prepare_output_filename(fn)

processing_applied_steps == <<"resize", "center", "shoulders", "background">>

\* the JSON body and the HTTP status of an answer
Response(status, success, dec, accepted, fatal, warn, v, applied, out) ==
    [status |-> status, success |-> success, decision |-> dec,
     accepted |-> accepted, fatal_issues |-> fatal, warnings |-> warn,
     validation_before |-> v, processing_applied |-> applied,
     input_image |-> image, output_image |-> out]

\* an HTTP error without the pipeline's body: a 400, or an unhandled exception
ErrorResponse(status) ==
    [status |-> status, success |-> None, decision |-> None,
     accepted |-> None, fatal_issues |-> None, warnings |-> None,
     validation_before |-> None, processing_applied |-> None,
     input_image |-> None, output_image |-> None]

(***************************************************************************)
(* The state machine.  One request is in flight at a time; pc is the       *)
(* position of its handler: idle, validate (the front end's call of        *)
(* validate_id_photo), process (process_id_photo's own call of             *)
(* validate_id_photo), auto_fix (auto_fix_image), check (the front end's   *)
(* os.path.exists test), done (answered).  app "script" is processing.py   *)
(* run as a program (lines 280-283).                                       *)
(***************************************************************************)
Init ==
    /\ pc = "idle"
    /\ app = None
    /\ filename = <<"", "">>
    /\ image = None
    /\ validation = None
    /\ fatal_issues = <<>>
    /\ warnings = <<>>
    /\ decision = None
    /\ composited = FALSE
    /\ fix = None
    /\ files = [n \in OutputNames |-> Absent]
    /\ inv = 0
    /\ resp = NoResponse

\* a request arrives: everything local to the previous handler is gone
Fresh(a, fn, img) ==
    /\ app' = a
    /\ filename' = fn
    /\ image' = img
    /\ validation' = None
    /\ fatal_issues' = <<>>
    /\ warnings' = <<>>
    /\ decision' = None
    /\ composited' = FALSE
    /\ fix' = None
    /\ inv' = inv + 1

\* app.py lines 25-41
process_route_receive ==
    /\ pc \in {"idle", "done"}
    /\ inv < MaxInv
    /\ \E has_photo \in BOOLEAN, fn \in FileNames, img \in PipeImages :
        /\ Fresh("flask", fn, img)
        /\ IF ~has_photo \/ fn = <<"", "">>
           THEN pc' = "done" /\ resp' = ErrorResponse(400)
           ELSE pc' = "validate" /\ resp' = NoResponse
    /\ UNCHANGED files

\* app.py lines 44-79
process_route_validate ==
    /\ pc = "validate" /\ app = "flask"
    /\ \E out \in ValidatorOutcomes :
        IF out = Raised
        THEN /\ pc' = "done"
             /\ resp' = ErrorResponse(500)
             /\ UNCHANGED <<validation, fatal_issues, warnings, decision>>
        ELSE LET fw == process_route_classify(out, 1, <<>>, <<>>)
                 dec == decide(fw[1])
             IN  /\ validation' = out
                 /\ fatal_issues' = fw[1]
                 /\ warnings' = fw[2]
                 /\ decision' = dec
                 /\ IF dec = "rejected"
                    THEN /\ pc' = "done"
                         /\ resp' = Response(200, TRUE, dec, FALSE, fw[1],
                                             fw[2], out, <<>>, None)
                    ELSE pc' = "process" /\ UNCHANGED resp
    /\ UNCHANGED <<app, filename, image, composited, fix, files, inv>>

\* app.py lines 84-115
process_route_respond ==
    /\ pc = "check" /\ app = "flask"
    /\ pc' = "done"
    /\ LET path == output_path(app, filename) IN
       IF files[path] = Absent
       THEN resp' = Response(500, FALSE, "processing_failed", None, None,
                             None, validation, None, None)
       ELSE resp' = Response(200, TRUE, decision, TRUE, fatal_issues,
                             warnings, validation, processing_applied_steps,
                             files[path])
    /\ UNCHANGED <<app, filename, image, validation, fatal_issues, warnings,
                   decision, composited, fix, files, inv>>

\* fastapi_app.py lines 132-149
process_endpoint_receive ==
    /\ pc \in {"idle", "done"}
    /\ inv < MaxInv
    /\ \E has_image \in BOOLEAN, fn \in FileNames, img \in PipeImages :
        /\ Fresh("fastapi", default_filename(fn), img)
        /\ IF ~has_image
           THEN pc' = "done" /\ resp' = ErrorResponse(400)
           ELSE pc' = "validate" /\ resp' = NoResponse
    /\ UNCHANGED files

\* fastapi_app.py lines 152-189
process_endpoint_validate ==
    /\ pc = "validate" /\ app = "fastapi"
    /\ \E out \in ValidatorOutcomes :
        IF out = Raised
        THEN /\ pc' = "done"
             /\ resp' = ErrorResponse(500)
             /\ UNCHANGED <<validation, fatal_issues, warnings, decision>>
        ELSE LET fw == process_endpoint_classify(out, 1, <<>>, <<>>)
                 dec == decide(fw[1])
             IN  /\ validation' = out
                 /\ fatal_issues' = fw[1]
                 /\ warnings' = fw[2]
                 /\ decision' = dec
                 /\ IF dec = "rejected"
                    THEN /\ pc' = "done"
                         /\ resp' = Response(200, TRUE, dec, FALSE, fw[1],
                                             fw[2], out, <<>>, None)
                    ELSE pc' = "process" /\ UNCHANGED resp
    /\ UNCHANGED <<app, filename, image, composited, fix, files, inv>>

\* fastapi_app.py lines 194-228
process_endpoint_respond ==
    /\ pc = "check" /\ app = "fastapi"
    /\ pc' = "done"
    /\ LET path == output_path(app, filename) IN
       IF files[path] = Absent
       THEN resp' = Response(200, FALSE, "processing_failed", None, None,
                             None, validation, None, None)
       ELSE resp' = Response(200, TRUE, decision, TRUE, fatal_issues,
                             warnings, validation, processing_applied_steps,
                             files[path])
    /\ UNCHANGED <<app, filename, image, validation, fatal_issues, warnings,
                   decision, composited, fix, files, inv>>

\* where process_id_photo returns to
AfterProcess == IF app = "script" THEN "done" ELSE "check"

\* processing.py lines 259-272: process_id_photo validates the image itself
process_id_photo_validate ==
    /\ pc = "process"
    /\ \E out \in ValidatorOutcomes :
        IF out = Raised
        THEN pc' = "done" /\ resp' = ErrorResponse(500)
        ELSE /\ pc' = IF has_fatal(out) THEN AfterProcess ELSE "auto_fix"
             /\ UNCHANGED resp
    /\ UNCHANGED <<app, filename, image, validation, fatal_issues, warnings,
                   decision, composited, fix, files, inv>>

\* processing.py lines 274-276 with auto_fix_image, lines 187-256
process_id_photo_fix ==
    /\ pc = "auto_fix"
    /\ composited' = TRUE
    /\ fix' = auto_fix_image(image)
    /\ IF fix'.saved
       THEN /\ files' = [files EXCEPT ![output_path(app, filename)] =
                            [by |-> inv, size |-> fix'.size]]
            /\ pc' = AfterProcess
            /\ UNCHANGED resp
       ELSE /\ pc' = "done"
            /\ resp' = ErrorResponse(500)
            /\ UNCHANGED files
    /\ UNCHANGED <<app, filename, image, validation, fatal_issues, warnings,
                   decision, inv>>

Next ==
    \/ process_route_receive
    \/ process_route_validate
    \/ process_route_respond
    \/ process_endpoint_receive
    \/ process_endpoint_validate
    \/ process_endpoint_respond
    \/ process_id_photo_validate
    \/ process_id_photo_fix

Spec == Init /\ [][Next]_vars

(***************************************************************************)
(* processing.py run as a program on one image: process_id_photo(input,    *)
(* output) for every image of the grid.                                    *)
(***************************************************************************)
ScriptInit ==
    /\ pc = "process"
    /\ app = "script"
    /\ filename = <<"a", ".jpg">>
    /\ image \in GeoImages
    /\ validation = None
    /\ fatal_issues = <<>>
    /\ warnings = <<>>
    /\ decision = None
    /\ composited = FALSE
    /\ fix = None
    /\ files = [n \in OutputNames |-> Absent]
    /\ inv = 1
    /\ resp = NoResponse

ScriptNext ==
    \/ process_id_photo_validate
    \/ process_id_photo_fix

ScriptSpec == ScriptInit /\ [][ScriptNext]_vars

(***************************************************************************)
(* Properties.                                                             *)
(***************************************************************************)
FatalKeySet == {"faceDetected", "alignment", "accessories"}
Interpreted == decision # None
FatalFailure ==
    Interpreted /\ \E k \in FatalKeySet : validation[k].status = "failed"
IssueOf(k) ==
    [key |-> k, status |-> validation[k].status,
     message |-> validation[k].message]
Range(q) == {q[i] : i \in 1..Len(q)}
Answered == pc = "done" /\ resp.decision # None
WroteOutput == composited /\ fix.saved
RanA == composited /\ fix.branch = "A" /\ fix.error = "none"
RanB == composited /\ fix.branch = "B" /\ fix.error = "none"
Within(p, lo, hi) == ~RLess(p, R(lo)) /\ ~RLess(R(hi), p)

\* C1: a report with a failed entry on faceDetected, alignment or
\* accessories ends the invocation at once with decision rejected: the
\* compositor is not invoked, output_image is absent, processing_applied is
\* empty.
C1_FatalRejects ==
    FatalFailure =>
        /\ pc = "done"
        /\ resp.decision = "rejected"
        /\ ~composited
        /\ resp.output_image = None
        /\ resp.processing_applied = <<>>

\* a rejection answered while an output file of an earlier invocation
\* exists under the same name
C1_Witness ==
    /\ FatalFailure
    /\ pc = "done"
    /\ resp.decision = "rejected"
    /\ files[output_path(app, filename)] # Absent

\* C2: fatal_issues holds exactly the failed entries on the fatal keys,
\* warnings exactly the entries with status warning on any key, and the
\* decision is rejected iff fatal_issues is non-empty; a failed entry on a
\* key outside the fatal set is in neither list and does not reject.
C2_Interpretation ==
    Interpreted =>
        LET fatal == {k \in Criteria : validation[k].status = "failed"
                                       /\ k \in FatalKeySet}
            warn == {k \in Criteria : validation[k].status = "warning"}
            dropped == {k \in Criteria : validation[k].status = "failed"
                                         /\ k \notin FatalKeySet}
        IN  /\ Range(fatal_issues) = {IssueOf(k) : k \in fatal}
            /\ Len(fatal_issues) = Cardinality(fatal)
            /\ Range(warnings) = {IssueOf(k) : k \in warn}
            /\ Len(warnings) = Cardinality(warn)
            /\ decision = IF fatal_issues # <<>> THEN "rejected"
                          ELSE "processed"
            /\ fatal = {} => decision = "processed"
            /\ \A k \in dropped :
                 IssueOf(k) \notin Range(fatal_issues) \cup Range(warnings)

\* accepted although the background criterion failed
C2_Witness ==
    /\ Interpreted
    /\ decision = "processed"
    /\ validation["background"].status = "failed"
    /\ fatal_issues = <<>>
    /\ warnings = <<>>

\* C3: an answered invocation is processed only if the compositor wrote the
\* output during this invocation and that image is the one returned; an
\* accepted invocation without such an output answers processing_failed.
C3_ProcessedOnlyIfWritten ==
    (Answered /\ Interpreted /\ decision = "processed") =>
        /\ resp.decision = "processed" =>
              /\ WroteOutput
              /\ resp.output_image = [by |-> inv, size |-> TARGET_SIZE]
        /\ ~WroteOutput => resp.decision = "processing_failed"

\* C4: once the front end has accepted the report, process_id_photo does
\* not return without having invoked the compositor.
C4_AcceptedImpliesComposited ==
    (pc = "check" /\ decision = "processed") => composited

\* C5: processing_failed is answered with success = false and a 5xx status,
\* a rejection with success = true and a normal status, in both front ends.
C5_FailureIs5xx ==
    Answered =>
        /\ resp.decision = "processing_failed" =>
              resp.success = FALSE /\ resp.status >= 500
        /\ resp.decision = "rejected" =>
              resp.success = TRUE /\ resp.status = 200

\* C6: whatever the image size and the face box, the compositor completes
\* without error and renders a 480x640 output.
C6_AlwaysRenders ==
    composited => fix.error = "none" /\ fix.size = <<480, 640>>

\* C7: in Branch A the face height in the scaled subject, fh * new_subj_h / h,
\* is within 1 pixel of 320.
C7_FaceHeight ==
    RanA =>
        LET fh == RMul(image.face.height, R(image.h))
            rendered == RMul(fh, RDiv(R(fix.new_h), R(image.h)))
        IN  Within(rendered, 319, 321)

\* a face rendered strictly less than 320 pixels high
C7_Witness ==
    /\ RanA
    /\ RLess(RMul(RMul(image.face.height, R(image.h)),
                  RDiv(R(fix.new_h), R(image.h))), R(320))

\* C8: in Branch A the face centre lands within 1 pixel of x = 240 and
\* offset_x is not clamped to the canvas; in Branch B the left and right
\* margins of the scaled subject differ by at most 1 pixel.
C8_HorizontalCentering ==
    /\ RanA => Within(RAdd(R(fix.offset_x), fix.face_center_x_scaled),
                      239, 241)
    /\ RanB => LET left == fix.offset_x
                   right == 480 - fix.offset_x - fix.new_w
               IN  Abs(left - right) <= 1

\* a subject wider than the canvas, pasted at a negative offset_x
C8_Witness ==
    /\ RanA
    /\ fix.offset_x < 0
    /\ fix.offset_x + fix.new_w > 480

\* C9 as stated: the initial offset_y is round(0.52 * 640 -
\* scaledFaceCenterY), and the 480x640 scenario ends with scale 2.5,
\* offsetX -360, offsetY 13.
C9_RoundedOffset ==
    RanA =>
        /\ fix.offset_y_initial =
              PyRound(RSub(<<1664, 5>>, fix.face_center_y_scaled))
        /\ image = ScenarioImage =>
              /\ fix.scale = <<5, 2>>
              /\ fix.offset_x = -360
              /\ fix.offset_y = R(13)

\* C9 amended: the initial offset_y is 0.52 * 640 - scaledFaceCenterY
\* truncated toward zero, and the 480x640 scenario ends, with neither
\* adjustment firing, with scale 2.5, offsetX -360, offsetY 12.
C9_TruncatedOffset ==
    RanA =>
        /\ LET x == RSub(<<1664, 5>>, fix.face_center_y_scaled)
               t == fix.offset_y_initial
           IN  IF x[1] >= 0
               THEN t >= 0 /\ t * x[2] <= x[1] /\ x[1] < (t + 1) * x[2]
               ELSE t <= 0 /\ (t - 1) * x[2] < x[1] /\ x[1] <= t * x[2]
        /\ image = ScenarioImage =>
              /\ fix.scale = <<5, 2>>
              /\ fix.offset_x = -360
              /\ fix.offset_y_initial = 12
              /\ fix.offset_y = R(12)
              /\ ~fix.offset_y_is_float

\* the scenario of the spec, composited
C9_Witness ==
    /\ RanA
    /\ image = ScenarioImage
    /\ fix.new_w = 1200 /\ fix.new_h = 1600
    /\ fix.face_center_y_scaled = R(320)

\* C10 as stated: in Branch B the scaled subject fits the canvas and the
\* offsets are exactly half the free space on each axis.
C10_ExactHalves ==
    RanB =>
        /\ fix.new_w <= 480 /\ fix.new_h <= 640
        /\ 2 * fix.offset_x = 480 - fix.new_w
        /\ 2 * fix.offset_y_initial = 640 - fix.new_h
        /\ fix.offset_y = R(fix.offset_y_initial)

\* C10 amended: the offsets are half the free space rounded down.
C10_FloorHalves ==
    RanB =>
        /\ fix.new_w <= 480 /\ fix.new_h <= 640
        /\ 0 <= (480 - fix.new_w) - 2 * fix.offset_x
        /\ (480 - fix.new_w) - 2 * fix.offset_x <= 1
        /\ 0 <= (640 - fix.new_h) - 2 * fix.offset_y_initial
        /\ (640 - fix.new_h) - 2 * fix.offset_y_initial <= 1
        /\ fix.offset_y = R(fix.offset_y_initial)

\* a scaled subject that leaves an odd number of free columns
C10_Witness ==
    /\ RanB
    /\ (480 - fix.new_w) % 2 = 1

\* Branch A got as far as canvas.paste (line 254)
ReachedPasteA ==
    composited /\ fix.branch = "A" /\ fix.error \in {"none", "TypeError"}
\* offset_y after step 6b, and the head room top_in_canvas for an offset_y
AfterClamp == head_room_clamp(image, R(fix.offset_y_initial))[1]
HeadRoom(oy) == RSub(RAdd(oy, fix.face_top_y_scaled), R(10))
\* step 6c fired: the space under the subject after 6b exceeded 8 pixels
Tightened == RLess(R(8), RSub(R(640), RAdd(AfterClamp, R(fix.new_h))))

\* C11 as stated: there is a Branch-A input for which the head room is
\* non-negative after step 6b and negative in the final transform, step 6c
\* having changed offset_y (evaluated once a Branch-A run has reached the
\* paste, over every image of the grid).
C11_TighteningReviolates ==
    ReachedPasteA =>
    \E img \in GeoImages :
        LET r == auto_fix_image(img)
            b == head_room_clamp(img, R(r.offset_y_initial))[1]
        IN  /\ ~NoDetection(img)
            /\ r.error \in {"none", "TypeError"}
            /\ ~RLess(RSub(RAdd(b, r.face_top_y_scaled), R(10)), R(0))
            /\ r.offset_y # b
            /\ RLess(RSub(RAdd(r.offset_y, r.face_top_y_scaled), R(10)), R(0))

\* C11 amended: step 6c runs after step 6b without a re-check, puts the
\* bottom of the subject 8 pixels above the canvas bottom when it fires and
\* leaves offset_y alone otherwise; it never lowers offset_y, so the head
\* room that holds after 6b still holds in the final transform.
C11_TighteningKeepsHeadRoom ==
    ReachedPasteA =>
        /\ ~RLess(HeadRoom(AfterClamp), R(0))
        /\ fix.offset_y = IF Tightened THEN R(632 - fix.new_h)
                          ELSE AfterClamp
        /\ ~RLess(fix.offset_y, AfterClamp)
        /\ ~RLess(HeadRoom(fix.offset_y), R(0))

\* a subject short relative to the canvas: step 6c moved it down
C11_Witness ==
    /\ ReachedPasteA
    /\ Tightened
    /\ fix.new_h < 640
    /\ RLess(AfterClamp, fix.offset_y)

\* C12: the transform handed to canvas.paste in Branch A has scale > 0 and
\* offsets that are Python ints with integer values, whatever steps 6b and
\* 6c did to offset_y.
C12_IntegerTransform ==
    ReachedPasteA =>
        /\ fix.scale[1] > 0 /\ fix.scale[2] > 0
        /\ fix.offset_x \in Int
        /\ ~fix.offset_y_is_float
        /\ fix.offset_y[2] = 1
        /\ fix.error = "none"

\* a transform whose offset_y was adjusted after its initial value
C12_Witness ==
    /\ ReachedPasteA
    /\ fix.offset_y # R(fix.offset_y_initial)
    /\ fix.offset_y[2] = 1

====
